---- MODULE Spec2Model ----
(***************************************************************************)
(* Model of the pgBackRest HTTP client (common/io/http/client.c):          *)
(* httpClientNew, httpClientRequest (the retry loop), httpClientDone,      *)
(* httpClientBusy, httpClientStatStr and the free-resource callback.       *)
(* The collaborators that are not part of client.c (Wait, TlsSession,      *)
(* HttpResponse, the memory context) are modelled by their contracts.      *)
(***************************************************************************)
EXTENDS Integers, Sequences, FiniteSets, TLC

\* ---- bounds of the model ------------------------------------------------
MaxClients == 2        \* clients that may be constructed
MaxOps == 3            \* calls the caller makes over a behaviour
MaxTimeout == 2        \* largest configured timeout, in clock ticks
MaxDur == 2            \* longest duration of one attempt, in clock ticks

\* ---- program constants --------------------------------------------------
HTTP_RESPONSE_CODE_RETRY_CLASS == 5
NULL == 0

Clients == 1..MaxClients
Timeouts == {0, MaxTimeout}
Codes == {200, 404, 500, 503}
\* What happens to one attempt: the step that fails with an I/O error, an
\* assertion of a function called while the response is read that fails, or a
\* response
Failures == {[fail |-> f, code |-> 0] : f \in {"open", "write", "read", "assert"}}
Outcomes == Failures \cup {[fail |-> "none", code |-> k] : k \in Codes}

VARIABLES
    client,     \* [Clients -> struct HttpClient plus its mem context]
    stat,       \* httpClientStatLocal
    tls,        \* TLS sessions: number opened, the open ones, was any closed twice
    resp,       \* sequence of responses returned to the caller (their busy state)
    call,       \* the httpClientRequest call in progress / last finished, its outcome
    ghost,      \* history: what the operations did
    thread      \* threads that increment httpClientStatLocal: where each one is

vars == <<client, stat, tls, resp, call, ghost, thread>>

\* The program state the operators transform
World == [client |-> client, stat |-> stat, tls |-> tls, resp |-> resp, ghost |-> ghost]

NoClient == [state |-> "none", timeout |-> 0, tlsSession |-> NULL, response |-> NULL,
             callback |-> FALSE, child |-> {}]

\* a thread that is not within an increment, having made none
NoThread == [pc |-> "idle", field |-> "none", reg |-> 0, done |-> 0]

NoError == [type |-> "none", code |-> 0, attempt |-> 0]

NoCall == [pc |-> "idle", c |-> 0, elapsed |-> 0, attempts |-> 0,
           prev5xx |-> TRUE, lapsedPrev |-> FALSE, last |-> [fail |-> "none", code |-> 0],
           retryAtStart |-> 0, kind |-> "none", result |-> NULL, code |-> 0,
           err |-> NoError]

Init ==
    /\ client = [c \in Clients |-> NoClient]
    /\ stat = [object |-> 0, session |-> 0, request |-> 0, retry |-> 0, close |-> 0]
    /\ tls = [n |-> 0, open |-> <<>>, twice |-> FALSE]
    /\ resp = <<>>
    /\ call = NoCall
    /\ ghost = [badDone |-> FALSE, doneCR |-> 0, done |-> "none", calls |-> 0, ops |-> 0]
    /\ thread = [t \in Clients |-> NoThread]

\* ---- collaborators ------------------------------------------------------

\* Wait: is there time left for another attempt
waitMore(elapsed, timeout) == elapsed < timeout

\* tlsSessionFree(): closing an absent session is a no-op
Close(t, s) ==
    IF s \in DOMAIN t.open
    THEN [t EXCEPT !.open = [x \in DOMAIN t.open \ {s} |-> t.open[x]]]
    ELSE [t EXCEPT !.twice = TRUE]

tlsSessionFree(m, c, s) ==
    IF s = NULL THEN m
    ELSE [m EXCEPT !.tls = Close(@, s), !.client[c].child = @ \ {s}]

\* tlsClientOpen(): a new session allocated in the client's mem context
tlsClientOpen(m, c) ==
    LET s == m.tls.n + 1
    IN  [m EXCEPT !.tls.n = s,
                  !.tls.open = [x \in DOMAIN @ \cup {s} |->
                                   IF x = s THEN [owner |-> c, written |-> 0] ELSE @[x]],
                  !.client[c].tlsSession = s,
                  !.client[c].child = @ \cup {s}]

\* ---- httpClientDone (lines 245-272) ---------------------------------------
httpClientDoneAssert(close, closeRequired) == close \/ ~closeRequired

httpClientDone_statOnClose(m, c, close, closeRequired) ==
    LET m1 == IF close
              THEN LET f == tlsSessionFree(m, c, m.client[c].tlsSession)
                   IN  [f EXCEPT !.client[c].tlsSession = NULL,
                                 !.stat.close = @ + 1]
              ELSE m
    IN  [m1 EXCEPT !.client[c].callback = FALSE,
                   !.client[c].response = NULL,
                   !.ghost.badDone = @ \/ (closeRequired /\ ~close),
                   !.ghost.doneCR = IF closeRequired THEN @ + 1 ELSE @]

httpClientDone_keepSession(m, c, close, closeRequired) ==
    LET m1 == IF close
              THEN LET f == tlsSessionFree(m, c, m.client[c].tlsSession)
                   IN  [f EXCEPT !.stat.close = IF closeRequired THEN @ + 1 ELSE @]
              ELSE m
    IN  [m1 EXCEPT !.client[c].callback = FALSE,
                   !.client[c].response = NULL,
                   !.ghost.badDone = @ \/ (closeRequired /\ ~close),
                   !.ghost.doneCR = IF closeRequired THEN @ + 1 ELSE @]

\* the session closed whatever the close argument
httpClientDone_alwaysClose(m, c, close, closeRequired) ==
    LET f == tlsSessionFree(m, c, m.client[c].tlsSession)
        m1 == [f EXCEPT !.client[c].tlsSession = NULL,
                        !.stat.close = IF closeRequired THEN @ + 1 ELSE @]
    IN  [m1 EXCEPT !.client[c].callback = FALSE,
                   !.client[c].response = NULL,
                   !.ghost.badDone = @ \/ (closeRequired /\ ~close),
                   !.ghost.doneCR = IF closeRequired THEN @ + 1 ELSE @]

\* the response reference kept
httpClientDone_keepResponse(m, c, close, closeRequired) ==
    LET m1 == IF close
              THEN LET f == tlsSessionFree(m, c, m.client[c].tlsSession)
                   IN  [f EXCEPT !.client[c].tlsSession = NULL,
                                 !.stat.close = IF closeRequired THEN @ + 1 ELSE @]
              ELSE m
    IN  [m1 EXCEPT !.client[c].callback = FALSE,
                   !.ghost.badDone = @ \/ (closeRequired /\ ~close),
                   !.ghost.doneCR = IF closeRequired THEN @ + 1 ELSE @]

httpClientDone(m, c, close, closeRequired) ==
    LET m1 == IF close
              THEN LET f == tlsSessionFree(m, c, m.client[c].tlsSession)
                   IN  [f EXCEPT !.client[c].tlsSession = NULL,
                                 !.stat.close = IF closeRequired THEN @ + 1 ELSE @]
              ELSE m
    IN  [m1 EXCEPT !.client[c].callback = FALSE,
                   !.client[c].response = NULL,
                   \* history: the arguments the call proceeded with
                   !.ghost.badDone = @ \/ (closeRequired /\ ~close),
                   !.ghost.doneCR = IF closeRequired THEN @ + 1 ELSE @]

\* ---- HttpResponse -------------------------------------------------------

\* httpResponseDone(): idempotent "mark done"; tells the client whether the
\* session must be closed (content not fully read, or the server asked for it)
httpResponseDone(m, r) ==
    IF r = NULL \/ ~m.resp[r].busy THEN m
    ELSE LET rs == m.resp[r]
             m1 == httpClientDone(m, rs.client, rs.closeOnContentEof \/ ~rs.eof,
                                  rs.closeOnContentEof)
         IN  [m1 EXCEPT !.resp[r].busy = FALSE, !.resp[r].closeOnContentEof = FALSE]

\* httpResponseNew(): read the status and headers; the content is read at once
\* when there is none or when it is cached, and the response is then done
httpResponseNew(m, c, code, contentExists, closeHdr, contentCache) ==
    LET busy == contentExists /\ ~contentCache
        r == [client |-> c, code |-> code, busy |-> busy, eof |-> ~busy,
              closeOnContentEof |-> closeHdr]
    IN  [m |-> IF busy THEN m ELSE httpClientDone(m, c, closeHdr, closeHdr), r |-> r]

httpResponseBusy(r) == r.busy

httpResponseCode(r) == r.code

\* ---- httpClientNew (lines 70-103) ----------------------------------------
httpClientNew_noStat(m, c, timeout) ==
    [m EXCEPT !.client[c] = [NoClient EXCEPT !.state = "live", !.timeout = timeout]]

httpClientNew(m, c, timeout) ==
    [m EXCEPT !.client[c] = [NoClient EXCEPT !.state = "live", !.timeout = timeout],
              !.stat.object = @ + 1]

\* ---- httpClientRequest (lines 106-222) ------------------------------------

\* ASSERT(!this->response), line 116
httpClientRequestAssert_off(m, c) == TRUE

httpClientRequestAssert(m, c) == m.client[c].response = NULL

\* line 184: retry when the response code is 5xx
httpResponseCodeRetry_only503(code) == code = 503

httpResponseCodeRetry(code) == code \div 100 = HTTP_RESPONSE_CODE_RETRY_CLASS

ErrorOf(o, k) ==
    IF o.fail = "none" THEN [type |-> "ServiceError", code |-> o.code, attempt |-> k]
    ELSE IF o.fail = "assert" THEN [type |-> "AssertError", code |-> 0, attempt |-> k]
    ELSE [type |-> "IoError:" \o o.fail, code |-> 0, attempt |-> k]

\* The TRY block, lines 131-186: one attempt whose outcome the backend decides
\* (o: session open fails, write fails, read fails, an assertion fails, or a
\* response with a code)
\* a session opened at every attempt
TryBlock_alwaysOpen(m, c, o, contentExists, closeHdr, contentCache, k) ==
    LET thrown(mm) == [m |-> mm, threw |-> TRUE, err |-> ErrorOf(o, k), r |-> <<>>]
        m1 == [tlsClientOpen(m, c) EXCEPT !.stat.session = @ + 1]
        s == m1.client[c].tlsSession
    IN  IF o.fail = "open" THEN thrown(m)
        ELSE IF o.fail = "write" THEN thrown(m1)
        ELSE LET m2 == [m1 EXCEPT !.tls.open[s].written = @ + 1]
             IN  IF o.fail \in {"read", "assert"} THEN thrown(m2)
                 ELSE LET n == httpResponseNew(m2, c, o.code, contentExists, closeHdr,
                                               contentCache)
                      IN  IF httpResponseCodeRetry(httpResponseCode(n.r))
                          THEN thrown(n.m)
                          ELSE [m |-> n.m, threw |-> FALSE, err |-> NoError, r |-> n.r]

TryBlock(m, c, o, contentExists, closeHdr, contentCache, k) ==
    LET needOpen == m.client[c].tlsSession = NULL
        thrown(mm) == [m |-> mm, threw |-> TRUE, err |-> ErrorOf(o, k), r |-> <<>>]
    IN  IF needOpen /\ o.fail = "open" THEN thrown(m)
        ELSE
          LET m1 == IF needOpen
                    THEN [tlsClientOpen(m, c) EXCEPT !.stat.session = @ + 1]
                    ELSE m
              s == m1.client[c].tlsSession
          IN  IF o.fail = "write" THEN thrown(m1)
              ELSE
                LET m2 == [m1 EXCEPT !.tls.open[s].written = @ + 1]
                IN  IF o.fail \in {"read", "assert"} THEN thrown(m2)
                    ELSE
                      LET n == httpResponseNew(m2, c, o.code, contentExists, closeHdr,
                                               contentCache)
                      IN  IF httpResponseCodeRetry(httpResponseCode(n.r))
                          THEN thrown(n.m)
                          ELSE [m |-> n.m, threw |-> FALSE, err |-> NoError, r |-> n.r]

\* The CATCH_ANY block, lines 187-202
CatchAny_noRetryStat(m, c, elapsed) ==
    LET m1 == httpClientDone(m, c, TRUE, FALSE)
    IN  IF waitMore(elapsed, m.client[c].timeout)
        THEN [m |-> m1, retry |-> TRUE]
        ELSE [m |-> m1, retry |-> FALSE]

CatchAny_always(m, c, elapsed) ==
    LET m1 == httpClientDone(m, c, TRUE, FALSE)
    IN  IF elapsed < 3 * MaxTimeout + 3
        THEN [m |-> [m1 EXCEPT !.stat.retry = @ + 1], retry |-> TRUE]
        ELSE [m |-> m1, retry |-> FALSE]

\* the deadline started again at each failure
CatchAny_newWait(m, c, elapsed) ==
    LET m1 == httpClientDone(m, c, TRUE, FALSE)
    IN  IF waitMore(0, m.client[c].timeout) /\ elapsed < 3 * MaxTimeout + 3
        THEN [m |-> [m1 EXCEPT !.stat.retry = @ + 1], retry |-> TRUE]
        ELSE [m |-> m1, retry |-> FALSE]

\* the abort counted as a close the server required
CatchAny_forced(m, c, elapsed) ==
    LET m1 == httpClientDone(m, c, TRUE, TRUE)
    IN  IF waitMore(elapsed, m.client[c].timeout)
        THEN [m |-> [m1 EXCEPT !.stat.retry = @ + 1], retry |-> TRUE]
        ELSE [m |-> m1, retry |-> FALSE]

\* no clean-up when the error is raised again
CatchAny_noDone(m, c, elapsed) ==
    IF waitMore(elapsed, m.client[c].timeout)
    THEN [m |-> [httpClientDone(m, c, TRUE, FALSE) EXCEPT !.stat.retry = @ + 1],
          retry |-> TRUE]
    ELSE [m |-> m, retry |-> FALSE]

CatchAny(m, c, elapsed) ==
    LET m1 == httpClientDone(m, c, TRUE, FALSE)
    IN  IF waitMore(elapsed, m.client[c].timeout)
        THEN [m |-> [m1 EXCEPT !.stat.retry = @ + 1], retry |-> TRUE]
        ELSE [m |-> m1, retry |-> FALSE]

\* RETHROW(), line 201: the error being handled is raised again as it is
RETHROW_wrapped(err) == [err EXCEPT !.type = "Wrapped"]

RETHROW(err) == err

\* After the loop, lines 207-217.  The table of returned responses keeps what
\* the handshake with the client needs (closeOnContentEof is read only when a
\* busy response is marked done); the call keeps the status code.
Handshake(r) == [client |-> r.client, busy |-> r.busy, eof |-> r.eof,
                 closeOnContentEof |-> r.busy /\ r.closeOnContentEof]

RequestReturn_alwaysRef(m, c, r) ==
    LET id == Len(m.resp) + 1
        m1 == [m EXCEPT !.resp = Append(@, Handshake(r))]
        m2 == [m1 EXCEPT !.client[c].response = id, !.client[c].callback = TRUE]
    IN  [m2 EXCEPT !.stat.request = @ + 1]

\* the request not counted
RequestReturn_noStat(m, c, r) ==
    LET m1 == [m EXCEPT !.resp = Append(@, Handshake(r))]
        id == Len(m1.resp)
    IN  IF httpResponseBusy(r)
        THEN [m1 EXCEPT !.client[c].response = id, !.client[c].callback = TRUE]
        ELSE m1

RequestReturn(m, c, r) ==
    LET id == Len(m.resp) + 1
        m1 == [m EXCEPT !.resp = Append(@, Handshake(r))]
        m2 == IF httpResponseBusy(r)
              THEN [m1 EXCEPT !.client[c].response = id, !.client[c].callback = TRUE]
              ELSE m1
    IN  [m2 EXCEPT !.stat.request = @ + 1]

\* ---- httpClientStatStr (lines 225-242), httpClientBusy (lines 275-285) ----
\* The result is the numbers the string shows, or the empty tuple for NULL
httpClientStatStr(st) ==
    IF st.object > 0
    THEN <<st.object, st.session, st.request, st.retry, st.close>>
    ELSE <<>>

httpClientBusy(m, c) == m.client[c].response # NULL

\* ---- client teardown ------------------------------------------------------

\* httpClientFreeResource, lines 60-67
httpClientFreeResource_noDone(m, c) ==
    [m EXCEPT !.client[c].tlsSession = NULL]

httpClientFreeResource_keepSession(m, c) ==
    httpResponseDone(m, m.client[c].response)

httpClientFreeResource(m, c) ==
    LET m1 == [m EXCEPT !.client[c].tlsSession = NULL]
    IN  httpResponseDone(m1, m.client[c].response)

\* memContextFree() of the client's context: the objects allocated in it (the
\* session) are freed and the registered callback runs
httpClientFree(m, c) ==
    LET ch == m.client[c].child
        m1 == [m EXCEPT !.tls.open = [x \in DOMAIN @ \ ch |-> @[x]],
                        !.tls.twice = @ \/ ~(ch \subseteq DOMAIN m.tls.open),
                        !.client[c].child = {}]
        m2 == IF m1.client[c].callback THEN httpClientFreeResource(m1, c) ELSE m1
    IN  [m2 EXCEPT !.client[c].state = "freed", !.client[c].callback = FALSE]

\* ---- actions ----------------------------------------------------------------
Set(m) ==
    /\ client' = m.client
    /\ stat' = m.stat
    /\ tls' = m.tls
    /\ resp' = m.resp

New(c, t) ==
    /\ call.pc = "idle"
    /\ client[c].state = "none"
    \* clients are numbered in the order of their construction
    /\ \A b \in Clients : b < c => client[b].state # "none"
    /\ ghost.ops < MaxOps
    /\ LET m == httpClientNew(World, c, t)
       IN  Set(m) /\ ghost' = [m.ghost EXCEPT !.ops = @ + 1]
    /\ UNCHANGED <<call, thread>>

\* httpClientRequest up to the start of the loop: the assertion and waitNew()
RequestBegin(c) ==
    /\ call.pc = "idle"
    /\ client[c].state = "live"
    /\ ghost.ops < MaxOps
    /\ IF httpClientRequestAssert(World, c)
       THEN /\ call' = [NoCall EXCEPT !.pc = "loop", !.c = c,
                                      !.retryAtStart = stat.retry]
            /\ ghost' = [ghost EXCEPT !.calls = @ + 1, !.ops = @ + 1]
       ELSE /\ call' = [NoCall EXCEPT !.c = c, !.kind = "assert",
                                      !.err = [type |-> "AssertError", code |-> 0,
                                               attempt |-> 0]]
            /\ ghost' = [ghost EXCEPT !.calls = @ + 1, !.ops = @ + 1]
    /\ UNCHANGED <<client, stat, tls, resp, thread>>

\* One iteration of the do/while loop; the last one includes what follows the
\* loop.  The contentCache argument of the call bears on the response that is
\* returned only, so it is drawn with the attempt.
Attempt(o, d, contentExists, closeHdr, contentCache) ==
    /\ call.pc = "loop"
    /\ o.fail = "open" => client[call.c].tlsSession = NULL
    \* the content and the Connection header of a response that never arrives,
    \* and the content of a response that is read at once, make no difference
    /\ o \in Failures => ~contentExists /\ ~closeHdr /\ ~contentCache
    /\ contentCache => ~contentExists
    \* a 5xx response is thrown away: whether its content was left unread makes
    \* no difference
    /\ o.code \in 500..599 => ~contentExists
    \* all durations that reach the deadline are alike: the shortest of them stands
    \* for them
    /\ d = 1 \/ call.elapsed + (d - 1) < client[call.c].timeout
    /\ UNCHANGED thread
    /\ LET c == call.c
           k == call.attempts + 1
           el == call.elapsed + d
           t == TryBlock(World, c, o, contentExists, closeHdr, contentCache, k)
           \* history of the call while it runs: were all earlier attempts answered
           \* 5xx, and had the deadline lapsed after one of them
           cl == [call EXCEPT !.attempts = k, !.elapsed = el, !.last = o,
                              !.prev5xx = @ /\ (call.attempts > 0 => call.last.code \in 500..599),
                              !.lapsedPrev = @ \/ (call.attempts > 0 /\
                                                   call.elapsed >= client[c].timeout)]
       IN  IF t.threw
           THEN LET h == CatchAny(t.m, c, el)
                IN  /\ Set(h.m)
                    /\ ghost' = h.m.ghost
                    /\ call' = IF h.retry THEN cl
                               ELSE [cl EXCEPT !.pc = "idle", !.elapsed = 0,
                                               !.prev5xx = TRUE,
                                               !.kind = "raised",
                                                   !.err = RETHROW(t.err)]
           ELSE LET f == RequestReturn(t.m, c, t.r)
                IN  /\ Set(f)
                    /\ ghost' = f.ghost
                    /\ call' = [cl EXCEPT !.pc = "idle", !.elapsed = 0,
                                          !.prev5xx = TRUE,
                                          !.kind = "returned",
                                          !.code = httpResponseCode(t.r),
                                              !.result = Len(f.resp)]

\* The caller reads the content of a busy response to its end
ResponseRead(r) ==
    /\ call.pc = "idle"
    /\ r \in DOMAIN resp
    /\ resp[r].busy
    /\ client[resp[r].client].state = "live"
    /\ ghost.ops < MaxOps
    /\ LET m == httpResponseDone([World EXCEPT !.resp[r].eof = TRUE], r)
       IN  Set(m) /\ ghost' = [m.ghost EXCEPT !.ops = @ + 1]
    /\ UNCHANGED <<call, thread>>

\* httpClientDone called by the caller itself, with any arguments
Done(c, close, closeRequired) ==
    /\ call.pc = "idle"
    /\ client[c].state = "live"
    /\ ghost.ops < MaxOps
    /\ IF httpClientDoneAssert(close, closeRequired)
       THEN LET m == httpClientDone(World, c, close, closeRequired)
            IN  Set(m) /\ ghost' = [m.ghost EXCEPT !.done = "ok", !.ops = @ + 1]
       ELSE /\ UNCHANGED <<client, stat, tls, resp>>
            /\ ghost' = [ghost EXCEPT !.done = "assert", !.ops = @ + 1]
    /\ UNCHANGED <<call, thread>>

Free(c) ==
    /\ call.pc = "idle"
    /\ client[c].state = "live"
    /\ ghost.ops < MaxOps
    /\ LET m == httpClientFree(World, c)
       IN  Set(m) /\ ghost' = [m.ghost EXCEPT !.ops = @ + 1]
    /\ UNCHANGED <<call, thread>>

Next ==
    \/ \E c \in Clients, t \in Timeouts : New(c, t)
    \/ \E c \in Clients : RequestBegin(c)
    \/ \E o \in Outcomes, d \in 1..MaxDur, ce \in BOOLEAN, ch \in BOOLEAN, cc \in BOOLEAN :
            Attempt(o, d, ce, ch, cc)
    \/ \E r \in 1..MaxOps : ResponseRead(r)
    \/ \E c \in Clients, cl \in BOOLEAN, cr \in BOOLEAN : Done(c, cl, cr)
    \/ \E c \in Clients : Free(c)

Spec == Init /\ [][Next]_vars

\* Every attempt completes, so a call in progress goes on
AnyAttempt ==
    /\ call.pc = "loop"
    /\ \E o \in Outcomes, d \in 1..MaxDur, ce \in BOOLEAN, ch \in BOOLEAN, cc \in BOOLEAN :
            Attempt(o, d, ce, ch, cc)

FairSpec == Spec /\ WF_vars(AnyAttempt)

\* ---- increments of httpClientStatLocal by several threads -------------------
\* httpClientStatLocal is a plain static struct (line 40) and each counter is
\* incremented with ++ (lines 98, 139, 198, 217, 265): a read of the counter
\* and a write of the value read plus one, with nothing that keeps another
\* thread from running in between.  Each thread runs operations of a client of
\* its own and makes at most MaxOps increments.
Fields == {"object", "session", "request", "retry", "close"}

StatLoad(t, f) ==
    /\ thread[t].pc = "idle"
    /\ thread[t].done < MaxOps
    /\ thread' = [thread EXCEPT ![t].pc = "loaded", ![t].field = f, ![t].reg = stat[f]]
    /\ UNCHANGED <<client, stat, tls, resp, call, ghost>>

StatStore(t) ==
    /\ thread[t].pc = "loaded"
    /\ stat' = [stat EXCEPT ![thread[t].field] = thread[t].reg + 1]
    /\ thread' = [thread EXCEPT ![t] = [NoThread EXCEPT !.done = thread[t].done + 1]]
    /\ UNCHANGED <<client, tls, resp, call, ghost>>

RaceNext ==
    \/ \E t \in Clients, f \in Fields : StatLoad(t, f)
    \/ \E t \in Clients : StatStore(t)

RaceSpec == Init /\ [][RaceNext]_vars

TypeOK ==
    /\ \A c \in Clients : client[c].state \in {"none", "live", "freed"}
    /\ call.pc \in {"idle", "loop"}

\* ---- properties --------------------------------------------------------------

Is2xx(o) == o.fail = "none" /\ o.code \in 200..299
Is5xx(o) == o.fail = "none" /\ o.code \in 500..599
Live(c) == client[c].state = "live"
\* a response whose finalization was forced while its content was not read
Forced(r) == ~resp[r].busy /\ ~resp[r].eof

\* the call has so far seen 5xx responses only / no lapse of the deadline
Only5xxSoFar == call.prev5xx /\ (call.attempts > 0 => Is5xx(call.last))
NoLapseSoFar == ~call.lapsedPrev /\ (call.attempts > 0 => call.elapsed < client[call.c].timeout)
AttemptStep == call.pc = "loop" /\ call'.attempts = call.attempts + 1

\* C1: when a call that has received N 5xx responses, the deadline not having
\* lapsed after any of them, receives a 2xx response, it returns that response
\* and the retry counter has grown by exactly N over the call.
RetryUntilSuccessStep ==
    (/\ AttemptStep
     /\ Only5xxSoFar
     /\ NoLapseSoFar
     /\ Is2xx(call'.last))
    => /\ call'.pc = "idle"
       /\ call'.kind = "returned"
       /\ call'.code = call'.last.code
       /\ stat.retry = call.retryAtStart + call.attempts
       /\ stat'.retry = call.retryAtStart + call.attempts

RetryUntilSuccess == [][RetryUntilSuccessStep]_vars

RetryUntilSuccessWitness ==
    /\ call.kind = "returned"
    /\ call.attempts >= 2
    /\ Is2xx(call.last)
    /\ call.code = call.last.code
    /\ call.err = NoError
    /\ stat.retry = call.retryAtStart + (call.attempts - 1)

\* C2: when every attempt of a call was answered 5xx, the call does not return a
\* response, and when it ends it raises the error of its last attempt as thrown.
AllFailRaisesLastStep ==
    (/\ AttemptStep
     /\ Only5xxSoFar
     /\ Is5xx(call'.last))
    => /\ call'.kind # "returned"
       /\ call'.pc = "idle" =>
            /\ call'.kind = "raised"
            /\ call'.err = [type |-> "ServiceError", code |-> call'.last.code,
                            attempt |-> call'.attempts]

AllFailRaisesLast == [][AllFailRaisesLastStep]_vars

AllFailRaisesLastWitness ==
    /\ call.pc = "idle"
    /\ call.kind = "raised"
    /\ call.attempts >= 2
    /\ Is5xx(call.last)
    /\ call.err.type = "ServiceError"
    /\ call.err.attempt = call.attempts
    /\ stat.retry = call.retryAtStart + (call.attempts - 1)

\* C3: a request on a client that holds an undrained response fails at once with
\* an assertion: no attempt, no session, no write, no counter changes.
BusyRequestStep ==
    \A c \in Clients :
        (/\ ghost'.calls = ghost.calls + 1
         /\ call'.c = c
         /\ httpClientBusy(World, c))
        => /\ call'.kind = "assert"
           /\ call'.pc = "idle"
           /\ call'.attempts = 0
           /\ UNCHANGED <<client, stat, tls, resp>>

BusyRequestRejected == [][BusyRequestStep]_vars

BusyRequestRejectedWitness ==
    /\ call.kind = "assert"
    /\ call.pc = "idle"
    /\ httpClientBusy(World, call.c)
    /\ resp[client[call.c].response].busy

\* C4: at the return of a response the client refers to it exactly when it is
\* busy; after a non-busy response the client has no reference and the next
\* request passes the assertion.
ReturnStep ==
    (call.pc = "loop" /\ call'.kind = "returned")
    => LET c == call.c
           r == call'.result
           after == [client |-> client']
       IN  /\ httpClientBusy(after, c) <=> resp'[r].busy
           /\ resp'[r].busy => client'[c].response = r
           /\ ~resp'[r].busy => httpClientRequestAssert(after, c)

BackRefIffBusy == [][ReturnStep]_vars

BackRefIffBusyWitness ==
    /\ call.pc = "loop"
    /\ ghost.calls = 2
    /\ ghost.ops = 3
    /\ Len(resp) = 1
    /\ resp[1].eof
    /\ client[call.c].tlsSession # NULL

\* C5: httpClientDone with close on a client without session and response raises
\* nothing, frees nothing and leaves the client as it was; a second
\* httpClientDone leaves the client, the sessions and the responses as the first.
DoneTwice(c, close, closeRequired) ==
    LET m1 == httpClientDone(World, c, close, closeRequired)
        m2 == httpClientDone(m1, c, close, closeRequired)
    IN  /\ m2.client = m1.client
        /\ m2.tls = m1.tls
        /\ m2.resp = m1.resp

DefensiveDoneStep ==
    /\ \A c \in Clients, cl \in BOOLEAN, cr \in BOOLEAN :
           (Live(c) /\ httpClientDoneAssert(cl, cr)) => DoneTwice(c, cl, cr)
    /\ \A c \in Clients, cr \in BOOLEAN :
           (/\ Done(c, TRUE, cr)
            /\ client[c].tlsSession = NULL
            /\ client[c].response = NULL)
           => /\ ghost'.done = "ok"
              /\ UNCHANGED <<client, tls, resp>>

DoneIdempotent == [][DefensiveDoneStep]_vars

DoneIdempotentWitness ==
    /\ ghost.done = "ok"
    /\ tls.n = 0
    /\ \E c \in Clients : Live(c) /\ client[c].tlsSession = NULL /\ ~httpClientBusy(World, c)

\* C6: httpClientDone never proceeds with closeRequired and without close, and
\* the forced-close counter equals the number of httpClientDone calls that
\* proceeded with closeRequired.
ForcedCloseCounted ==
    /\ ~ghost.badDone
    /\ stat.close = ghost.doneCR

ForcedCloseCountedWitness ==
    /\ stat.close >= 1
    /\ ghost.done = "assert"

\* C7: the statistics string is absent while no client was constructed; after one
\* client and one successful request without retry it shows objects 1,
\* sessions >= 1, requests 1, retries 0.
Constructed == {c \in Clients : client[c].state # "none"}

StatSnapshot ==
    /\ Constructed = {} => httpClientStatStr(stat) = <<>>
    /\ (/\ Cardinality(Constructed) = 1
        /\ ghost.calls = 1
        /\ call.kind = "returned"
        /\ call.attempts = 1)
       => LET str == httpClientStatStr(stat)
          IN  /\ str # <<>>
              /\ str[1] = 1
              /\ str[2] >= 1
              /\ str[3] = 1
              /\ str[4] = 0

StatSnapshotWitness ==
    /\ Cardinality(Constructed) = 1
    /\ ghost.calls = 1
    /\ call.kind = "returned"
    /\ call.attempts = 1
    /\ Len(httpClientStatStr(stat)) = 5

\* C8: freeing a client that holds a busy response finalizes that response and
\* leaves the client without response and session reference; freeing a client
\* that is not busy finalizes nothing.
TeardownStep ==
    \A c \in Clients :
        (Live(c) /\ client'[c].state = "freed")
        => IF httpClientBusy(World, c)
           THEN LET r == client[c].response
                IN  /\ resp[r].busy
                    /\ ~resp'[r].busy
                    /\ client'[c].response = NULL
                    /\ client'[c].tlsSession = NULL
           ELSE resp' = resp

TeardownFinalizes == [][TeardownStep]_vars

TeardownFinalizesWitness ==
    \E c \in Clients :
        /\ client[c].state = "freed"
        /\ \E r \in DOMAIN resp : resp[r].client = c /\ Forced(r)

\* C9: no session is ever closed twice, and every session that is open belongs
\* to a live client: once a client is freed all its sessions have been closed.
SessionClosedOnce ==
    /\ ~tls.twice
    /\ \A s \in DOMAIN tls.open : Live(tls.open[s].owner)

SessionClosedOnceWitness ==
    /\ tls.n >= 2
    /\ DOMAIN tls.open = {}
    /\ \E c \in Clients :
        /\ client[c].state = "freed"
        /\ \E r \in DOMAIN resp : resp[r].client = c /\ Forced(r)

\* C10: a call in progress ends, by a response or an error, and it makes at most
\* timeout + 1 attempts (an attempt takes at least one tick).
RequestTerminates ==
    /\ (call.pc = "loop") ~> (call.pc = "idle" /\ call.kind \in {"returned", "raised"})
    /\ [](call.attempts >= 1 => call.attempts <= client[call.c].timeout + 1)

RequestTerminatesWitness ==
    /\ call.pc = "idle"
    /\ call.kind = "raised"
    /\ call.attempts = MaxTimeout
    /\ Is5xx(call.last)

\* C11: the deadline of a call starts once, when the call begins, and no retry
\* starts it again; the first attempt is made whatever the timeout; a further
\* attempt begins only if the deadline had not lapsed when the one before
\* failed; an attempt that yields a response to return never looks at it.
DeadlineStep ==
    /\ (call.pc = "idle" /\ call'.pc = "loop")
            => call'.elapsed = 0 /\ call'.attempts = 0
    /\ call.pc = "loop" => AttemptStep
    /\ (call.pc = "loop" /\ call'.pc = "loop")
            => /\ call'.elapsed > call.elapsed
               /\ call'.elapsed < client[call.c].timeout
    /\ (AttemptStep /\ call'.last.fail = "none" /\ call'.last.code \notin 500..599)
            => call'.kind = "returned"

DeadlineOnce == [][DeadlineStep]_vars

\* a call of a client with timeout zero made its one attempt, and a call of
\* another kind went on to a second attempt
DeadlineOnceWitness ==
    /\ call.pc = "idle"
    /\ call.kind = "raised"
    /\ call.attempts = 1
    /\ client[call.c].timeout = 0
    /\ call.last.fail = "write"

\* the sessions of client c that are open
OpenOf(c) == {s \in DOMAIN tls.open : tls.open[s].owner = c}
OpenOfNext(c) == {s \in DOMAIN tls'.open : tls'.open[s].owner = c}

\* C12: a failed attempt (open, write or read error, or a 5xx response) leaves
\* the client with no session and the session of the attempt closed, before it
\* is known whether the call goes on; the abort counts no forced close; the
\* attempt that follows a failed one opens a new session.
AbortStep ==
    /\ (AttemptStep /\ (call'.pc = "loop" \/ call'.kind = "raised"))
            => /\ client'[call.c].tlsSession = NULL
               /\ OpenOfNext(call.c) = {}
               /\ client'[call.c].response = NULL
               /\ stat'.close = ghost'.doneCR
               /\ call'.last.fail # "none" => stat'.close = stat.close
    /\ (AttemptStep /\ call.attempts > 0)
            => /\ client[call.c].tlsSession = NULL
               /\ call'.last.fail # "open"
                    => /\ tls'.n = tls.n + 1
                       /\ stat'.session = stat.session + 1

OneSessionStep ==
    /\ \A c \in Clients :
        /\ Cardinality(OpenOfNext(c)) <= 1
        /\ client'[c].state = "live"
                => OpenOfNext(c) = {client'[c].tlsSession} \ {NULL}
        /\ (client[c].state = "none" /\ client'[c].state = "live")
                => /\ client'[c].tlsSession = NULL
                   /\ tls' = tls
                   /\ stat'.session = stat.session
    /\ stat'.session = tls'.n
    /\ tls'.n # tls.n
            => /\ AttemptStep
               /\ client[call.c].tlsSession = NULL
               /\ tls'.n = tls.n + 1
               /\ stat'.session = stat.session + 1

OneSession == [][OneSessionStep]_vars

\* the one client constructed holds its second session, the first one closed
OneSessionWitness ==
    /\ call.pc = "idle"
    /\ call.kind = "returned"
    /\ stat.session = 2
    /\ OpenOf(call.c) = {2}
    /\ client[call.c].tlsSession = 2
    /\ stat.object = 1

\* C15: httpClientDone with close = false, called by the caller or when a
\* response is read to its end with no close asked for, leaves the session as it
\* is and clears the response reference and the callback; the first attempt of
\* a call of a client that has a session writes to that session and opens none.
SessionReuseStep ==
    /\ \A c \in Clients :
        (Done(c, FALSE, FALSE) \/
         \E r \in DOMAIN resp : /\ resp[r].client = c
                                /\ ~resp[r].closeOnContentEof
                                /\ ResponseRead(r))
            => /\ client'[c].tlsSession = client[c].tlsSession
               /\ client'[c].response = NULL
               /\ ~client'[c].callback
               /\ tls' = tls
               /\ stat' = stat
    /\ (AttemptStep /\ call.attempts = 0 /\ client[call.c].tlsSession # NULL)
            => /\ tls'.n = tls.n
               /\ stat'.session = stat.session
               /\ call'.last.fail # "open"
               /\ client[call.c].tlsSession \in DOMAIN tls'.open
                    => /\ client'[call.c].tlsSession = client[call.c].tlsSession
                       /\ tls'.open[client[call.c].tlsSession].written
                            = tls.open[client[call.c].tlsSession].written + 1

SessionReuse == [][SessionReuseStep]_vars

\* the second call of a client was written to the session of its first
SessionReuseWitness ==
    /\ call.pc = "idle"
    /\ call.kind = "returned"
    /\ call.attempts = 1
    /\ ghost.calls = 2
    /\ stat.session = 1
    /\ client[call.c].tlsSession = 1
    /\ 1 \in DOMAIN tls.open
    /\ tls.open[1].written = 2

\* C16: the request counter grows by one at the step by which a call returns a
\* response, however many attempts the call made, and at no other step: not by
\* a failed attempt, not by a call that raises.
RequestCountStep ==
    /\ (AttemptStep /\ call'.pc = "idle" /\ call'.kind = "returned")
            => stat'.request = stat.request + 1
    /\ ~(AttemptStep /\ call'.pc = "idle" /\ call'.kind = "returned")
            => stat'.request = stat.request
    /\ stat'.request = Len(resp')

RequestCount == [][RequestCountStep]_vars

\* of two calls one raised and the other returned after two attempts
RequestCountWitness ==
    /\ call.pc = "idle"
    /\ call.kind = "returned"
    /\ call.attempts = 2
    /\ ghost.calls = 2
    /\ stat.request = 1

\* C17: the codes 500 to 599, and no other code, take the failure path: the
\* session is dropped and the call retries or raises ServiceError with that
\* code; any other code is returned by the attempt that received it, with no
\* retry; no call returns a 5xx response.
RetryClassStep ==
    /\ (AttemptStep /\ call'.last.fail = "none")
            => /\ \A k \in 100..599 : httpResponseCodeRetry(k) <=> k \in 500..599
               /\ IF call'.last.code \in 500..599
                  THEN /\ client'[call.c].tlsSession = NULL
                       /\ stat'.request = stat.request
                       /\ \/ /\ call'.pc = "loop"
                             /\ stat'.retry = stat.retry + 1
                          \/ /\ call'.pc = "idle"
                             /\ call'.kind = "raised"
                             /\ call'.err.type = "ServiceError"
                             /\ call'.err.code = call'.last.code
                             /\ stat'.retry = stat.retry
                  ELSE /\ call'.pc = "idle"
                       /\ call'.kind = "returned"
                       /\ call'.code = call'.last.code
                       /\ stat'.retry = stat.retry
    /\ call'.kind = "returned" => call'.code \notin 500..599

RetryClass == [][RetryClassStep]_vars

\* a call goes on after a 503 response
RetryClassWitness ==
    /\ call.pc = "loop"
    /\ call.attempts = 1
    /\ call.last.code = 503
    /\ stat.retry = call.retryAtStart + 1

\* C19: a live client that is busy holds an open session of its own.  It became
\* busy by the return of a call whose last request was written to that session,
\* and as long as it stays busy with that response the session is the same one,
\* still open, with nothing more written to it.
BusyHoldsSessionStep ==
    \A c \in Clients :
        (client'[c].state = "live" /\ client'[c].response # NULL)
            => LET s == client'[c].tlsSession
               IN  /\ s # NULL
                   /\ s \in OpenOfNext(c)
                   /\ IF client[c].response = NULL
                      THEN /\ AttemptStep
                           /\ call.c = c
                           /\ call'.kind = "returned"
                           /\ tls'.open[s].written =
                                IF client[c].tlsSession = s
                                THEN tls.open[s].written + 1 ELSE 1
                      ELSE /\ client'[c].response = client[c].response
                           /\ client[c].tlsSession = s
                           /\ tls'.open[s] = tls.open[s]

BusyHoldsSession == [][BusyHoldsSessionStep]_vars

\* a busy client whose session has seen one request, after a further call of
\* that client was rejected
BusyHoldsSessionWitness ==
    /\ call.pc = "idle"
    /\ call.kind = "assert"
    /\ client[call.c].state = "live"
    /\ client[call.c].response # NULL
    /\ client[call.c].tlsSession \in OpenOf(call.c)
    /\ tls.open[client[call.c].tlsSession].written = 1

\* C20: a call that raises leaves its client with no session, no response
\* reference and no callback; the next call of that client is accepted, finds
\* no session, and its first attempt opens a new one.
CleanAfterRaiseStep ==
    /\ (AttemptStep /\ call'.pc = "idle" /\ call'.kind = "raised")
            => /\ client'[call.c].tlsSession = NULL
               /\ client'[call.c].response = NULL
               /\ ~client'[call.c].callback
               /\ OpenOfNext(call.c) = {}
    /\ (call.pc = "idle" /\ call.kind = "raised" /\ call'.c = call.c
            /\ ghost'.calls = ghost.calls + 1)
            => /\ call'.pc = "loop"
               /\ client[call.c].tlsSession = NULL
    /\ (AttemptStep /\ call.attempts = 0 /\ client[call.c].tlsSession = NULL
            /\ call'.last.fail # "open")
            => /\ tls'.n = tls.n + 1
               /\ stat'.session = stat.session + 1

CleanAfterRaise == [][CleanAfterRaiseStep]_vars

\* the first call of the one client opened a session and raised, its second
\* call opened another session and returned
CleanAfterRaiseWitness ==
    /\ call.pc = "idle"
    /\ call.kind = "returned"
    /\ call.attempts = 1
    /\ ghost.calls = 2
    /\ Len(resp) = 1
    /\ tls.n = 2
    /\ stat.object = 1

\* C13: an AssertError raised during an attempt ends the call at once: the
\* call raises that error, it makes no further attempt, and the retry counter
\* stays as it was.
ContractViolationNotRetriedStep ==
    (AttemptStep /\ call'.last.fail = "assert")
        => /\ call'.pc = "idle"
           /\ call'.kind = "raised"
           /\ call'.err.type = "AssertError"
           /\ stat'.retry = stat.retry

ContractViolationNotRetried == [][ContractViolationNotRetriedStep]_vars

\* C18: when several threads increment the counters, each counter is
\* monotonic: no step makes any of them smaller.
CountersMonotonicStep == \A f \in Fields : stat'[f] >= stat[f]

CountersMonotonic == [][CountersMonotonicStep]_vars

====
